---- MODULE Spec2Model ----
(***************************************************************************)
(* A model of scikit-chem's two small utilities:                           *)
(*   skchem/utils/string.py  camel_to_snail, free_to_snail                 *)
(*   skchem/core/point3D.py  Point3D.to_dict, __repr__, __str__            *)
(*                                                                         *)
(* Text is a sequence of one-character strings.  A coordinate is an        *)
(* integer number of thousandths (1.4 is 1400); only values whose double   *)
(* representation formats unambiguously are used: a value that is a        *)
(* decimal tie at two places is a multiple of 1/8 and so exact in binary.  *)
(***************************************************************************)
EXTENDS Integers, Sequences, FiniteSets, TLC

VARIABLES
    arg,      \* string component: the text handed to the converter
    fn,       \* which converter is being applied: "none", "camel", "free"
    calls,    \* the results so far, calls[k+1] = fn(calls[k]), calls[1] = fn(arg)
    host,     \* the interpreter's rounding rule: "py2" or "py3"
    heap,     \* point component: handle -> the instance stored there
    ret       \* the last method call on a point and what it returned

vars == <<arg, fn, calls, host, heap, ret>>

-----------------------------------------------------------------------------
(* Bounds of the model *)

MaxLen == 4         \* longest enumerated input text
MaxCalls == 2       \* how often a converter is re-applied to its own result
MaxPoints == 2      \* handles for simultaneously existing Point3D instances
MaxAddr == 3        \* size of the address pool id() draws from

-----------------------------------------------------------------------------
(* Characters *)

UPPER == <<"A","B","C","D","E","F","G","H","I","J","K","L","M",
           "N","O","P","Q","R","S","T","U","V","W","X","Y","Z">>
LOWER == <<"a","b","c","d","e","f","g","h","i","j","k","l","m",
           "n","o","p","q","r","s","t","u","v","w","x","y","z">>

\* the character class [A-Z] of the pattern
AZ == {UPPER[i] : i \in 1..Len(UPPER)}

\* str.strip() with no argument removes whitespace
Whitespace == {" ", "\t", "\n"}

\* mutant: str.swapcase() on one character
SwapCaseChar(c) ==
    IF c \in AZ THEN LOWER[CHOOSE i \in 1..Len(UPPER) : UPPER[i] = c]
    ELSE IF \E i \in 1..Len(LOWER) : LOWER[i] = c
         THEN UPPER[CHOOSE i \in 1..Len(LOWER) : LOWER[i] = c]
    ELSE c

\* str.lower() on one character: ASCII capitals, and capitals outside ASCII
LowerChar(c) ==
    IF c \in AZ THEN LOWER[CHOOSE i \in 1..Len(UPPER) : UPPER[i] = c]
    ELSE IF c = "É" THEN "é"
    ELSE c

\* str.lower()
Lower(s) == [i \in 1..Len(s) |-> LowerChar(s[i])]

-----------------------------------------------------------------------------
(* skchem/utils/string.py *)

\* mutant: [A-Z] in place of [A-Z]+, one capital per match
RunLenSingle(s, pos) == IF pos <= Len(s) /\ s[pos] \in AZ THEN 1 ELSE 0

\* length of the longest match of [A-Z]+ starting at position pos (0 = none)
RECURSIVE RunLen(_, _)
RunLen(s, pos) ==
    IF pos <= Len(s) /\ s[pos] \in AZ THEN 1 + RunLen(s, pos + 1) ELSE 0

\* mutant: the lookahead (?!^) left out, so a match may start the text
MatchLenNoLookahead(s, pos) == RunLen(s, pos)

\* does (?!^)([A-Z]+) match at pos: ^ matches only at the start of the text
MatchLen(s, pos) == IF pos = 1 THEN 0 ELSE RunLen(s, pos)

\* mutant: the pattern ([A-Z]), every capital replaced by "_" and itself
RECURSIVE ReSubEach(_, _)
ReSubEach(s, pos) ==
    IF pos > Len(s) THEN <<>>
    ELSE (IF s[pos] \in AZ THEN <<"_", s[pos]>> ELSE <<s[pos]>>)
         \o ReSubEach(s, pos + 1)

\* re.sub(pattern, r'_\1', s): scan left to right, replacing each
\* non-overlapping match by "_" and the matched text
RECURSIVE ReSub(_, _)
ReSub(s, pos) ==
    IF pos > Len(s) THEN <<>>
    ELSE LET n == MatchLen(s, pos) IN
         IF n > 0
         THEN <<"_">> \o SubSeq(s, pos, pos + n - 1) \o ReSub(s, pos + n)
         ELSE <<s[pos]>> \o ReSub(s, pos + 1)

camel_to_snail(s) == Lower(ReSub(s, 1))

\* str.strip(): drop leading and trailing whitespace
RECURSIVE LStrip(_)
LStrip(s) ==
    IF s # <<>> /\ Head(s) \in Whitespace THEN LStrip(Tail(s)) ELSE s

RECURSIVE RStrip(_)
RStrip(s) ==
    IF s # <<>> /\ s[Len(s)] \in Whitespace
    THEN RStrip(SubSeq(s, 1, Len(s) - 1)) ELSE s

Strip(s) == RStrip(LStrip(s))

\* mutant: every whitespace character replaced, not only the space
ReplaceWhitespace(s) ==
    [i \in 1..Len(s) |-> IF s[i] \in Whitespace THEN "_" ELSE s[i]]

\* str.replace(' ', '_')
Replace(s) == [i \in 1..Len(s) |-> IF s[i] = " " THEN "_" ELSE s[i]]

free_to_snail(s) == Replace(Lower(Strip(s)))

-----------------------------------------------------------------------------
(* Inputs of the string component *)

Alphabet == {"A", "B", "c", "_", " ", "\t", "É"}

RECURSIVE TextsOfLen(_)
TextsOfLen(n) ==
    IF n = 0 THEN {<<>>}
    ELSE {Append(t, c) : t \in TextsOfLen(n - 1), c \in Alphabet}

HTTPServer == <<"H","T","T","P","S","e","r","v","e","r">>
CamelCase == <<"C","a","m","e","l","C","a","s","e">>
HelloWorld == <<" "," ","H","e","l","l","o"," ","W","o","r","l","d"," "," ">>
FreeText == <<" "," ","F","r","e","e"," ","T","e","x","t"," "," ">>
lower == <<"l","o","w","e","r">>
hello_world == <<"h","e","l","l","o","_","w","o","r","l","d">>

Examples == {HTTPServer, CamelCase, HelloWorld, FreeText, lower, hello_world}

Texts == UNION {TextsOfLen(n) : n \in 0..MaxLen} \cup Examples

-----------------------------------------------------------------------------
(* The string component as a state machine *)

NoRet == [op |-> "none"]

InitStr ==
    /\ arg \in Texts
    /\ fn = "none"
    /\ calls = <<>>
    /\ host = "py3"
    /\ heap = [h \in 1..MaxPoints |-> [live |-> FALSE]]
    /\ ret = NoRet

\* the caller evaluates camel_to_snail(arg)
CallCamel ==
    /\ fn = "none"
    /\ fn' = "camel"
    /\ calls' = <<camel_to_snail(arg)>>
    /\ UNCHANGED <<arg, host, heap, ret>>

\* the caller evaluates free_to_snail(arg)
CallFree ==
    /\ fn = "none"
    /\ fn' = "free"
    /\ calls' = <<free_to_snail(arg)>>
    /\ UNCHANGED <<arg, host, heap, ret>>

\* the caller hands the last result to the same converter again
ReapplyCamel ==
    /\ fn = "camel"
    /\ Len(calls) < MaxCalls
    /\ calls' = Append(calls, camel_to_snail(calls[Len(calls)]))
    /\ UNCHANGED <<arg, fn, host, heap, ret>>

ReapplyFree ==
    /\ fn = "free"
    /\ Len(calls) < MaxCalls
    /\ calls' = Append(calls, free_to_snail(calls[Len(calls)]))
    /\ UNCHANGED <<arg, fn, host, heap, ret>>

NextStr == CallCamel \/ CallFree \/ ReapplyCamel \/ ReapplyFree

SpecStr == InitStr /\ [][NextStr]_vars

-----------------------------------------------------------------------------
(* Properties of the string component *)

CamelDone == fn = "camel" /\ Len(calls) >= 1
FreeDone == fn = "free" /\ Len(calls) >= 1

\* out is the lowercase of s with one "_" put before each position of K
IsInsertion(out, s, K) ==
    /\ Len(out) = Len(s) + Cardinality(K)
    /\ \A i \in 1..Len(s) :
         out[i + Cardinality({k \in K : k <= i})] = LowerChar(s[i])
    /\ \A k \in K : out[k + Cardinality({j \in K : j < k})] = "_"

\* the first position of every maximal run of capitals
RunStarts(s) ==
    {i \in 1..Len(s) : s[i] \in AZ /\ (i = 1 \/ s[i - 1] \notin AZ)}

\* C1 as stated: camel_to_snail(s) is the lowercase of s with one underscore
\* before each run of capitals that does not begin the string; a run that
\* begins the string gets no underscore before it or inside it.
C1_UnderscorePerRunNotAtStart ==
    CamelDone => IsInsertion(calls[1], arg, RunStarts(arg) \ {1})

h_ttpserver == <<"h","_","t","t","p","s","e","r","v","e","r">>
_h_t_t_p_server ==
    <<"_","h","_","t","_","t","_","p","_","s","e","r","v","e","r">>

HasUpper(s) == \E i \in 1..Len(s) : LowerChar(s[i]) # s[i]

\* capitalised words with no consecutive capitals: only ASCII letters, a
\* capital first, never two capitals in a row
CapitalisedWords(s) ==
    /\ s # <<>>
    /\ s[1] \in AZ
    /\ \A i \in 1..Len(s) : s[i] \in AZ \/ \E j \in 1..Len(LOWER) : LOWER[j] = s[i]
    /\ \A i \in 2..Len(s) : ~(s[i] \in AZ /\ s[i - 1] \in AZ)

camel_case == <<"c","a","m","e","l","_","c","a","s","e">>

\* C3: camel_to_snail is defined on every text, returns a text without
\* capitals unchanged ("" and "lower" included) and turns capitalised words
\* into the lowercased words joined by single underscores, with no leading
\* underscore ("CamelCase" gives "camel_case").
C3_LowercaseFixedAndCamelCase ==
    /\ fn = "none" => ENABLED CallCamel
    /\ CamelDone =>
         /\ ~HasUpper(arg) => calls[1] = arg
         /\ arg = <<>> => calls[1] = <<>>
         /\ arg = lower => calls[1] = lower
         /\ arg = CamelCase => calls[1] = camel_case
         /\ CapitalisedWords(arg) =>
              /\ IsInsertion(calls[1], arg, {i \in 2..Len(arg) : arg[i] \in AZ})
              /\ calls[1][1] # "_"
              /\ \A i \in 2..Len(calls[1]) :
                   ~(calls[1][i] = "_" /\ calls[1][i - 1] = "_")

C3_Witness == CamelDone /\ arg = CamelCase /\ calls[1] = camel_case

\* C4: free_to_snail(s) is s without its leading and trailing whitespace,
\* lowercased, each remaining space replaced by one underscore and every
\* other interior character kept; "  Hello World  " gives "hello_world"
\* and "" gives "".
C4_StripLowerReplace ==
    FreeDone =>
      LET keep == {i \in 1..Len(arg) : arg[i] \notin Whitespace}
          out == calls[1]
      IN  /\ keep = {} => out = <<>>
          /\ keep # {} =>
               LET f == CHOOSE i \in keep : \A j \in keep : i <= j
                   l == CHOOSE i \in keep : \A j \in keep : i >= j
               IN  /\ Len(out) = l - f + 1
                   /\ \A j \in 1..Len(out) :
                        out[j] = IF arg[f + j - 1] = " " THEN "_"
                                 ELSE LowerChar(arg[f + j - 1])
          /\ arg = HelloWorld => out = hello_world
          /\ arg = <<>> => out = <<>>

C4_Witness == FreeDone /\ arg = HelloWorld /\ calls[1] = hello_world

\* lowercase words joined by single underscores, no surrounding whitespace
SnailCase(s) ==
    /\ s # <<>>
    /\ \A i \in 1..Len(s) : s[i] = "_" \/ \E j \in 1..Len(LOWER) : LOWER[j] = s[i]
    /\ s[1] # "_" /\ s[Len(s)] # "_"
    /\ \A i \in 2..Len(s) : ~(s[i] = "_" /\ s[i - 1] = "_")

\* C5: on a text already in snail case, applying free_to_snail to its own
\* result returns that result again.
C5_FreeIdempotentOnSnail ==
    (fn = "free" /\ Len(calls) >= 2 /\ SnailCase(arg)) => calls[2] = calls[1]

C5_Witness ==
    fn = "free" /\ Len(calls) >= 2 /\ arg = hello_world /\ calls[2] = hello_world

\* C10: camel_to_snail(s) is the lowercase of s with exactly one underscore
\* before each capital that is not the first character and whose
\* predecessor is the first character or not a capital; the result gains no
\* leading underscore, "ABc" gives "a_bc", and camel_to_snail is idempotent.
C10_UnderscoreBeforeRunOrSecondChar ==
    CamelDone =>
      /\ IsInsertion(calls[1], arg,
           {i \in 2..Len(arg) : arg[i] \in AZ /\ (i = 2 \/ arg[i - 1] \notin AZ)})
      /\ (calls[1] # <<>> /\ calls[1][1] = "_") => arg[1] = "_"
      /\ arg = <<"A", "B", "c">> => calls[1] = <<"a", "_", "b", "c">>
      /\ Len(calls) >= 2 => calls[2] = calls[1]

C10_Witness ==
    CamelDone /\ arg = <<"A", "B", "c">> /\ Len(calls) >= 2
    /\ calls[2] = <<"a", "_", "b", "c">>

-----------------------------------------------------------------------------
(* Number formatting used by skchem/core/point3D.py *)

DIGITS == <<"0","1","2","3","4","5","6","7","8","9">>
HEXDIGITS == <<"0","1","2","3","4","5","6","7","8","9","a","b","c","d","e","f">>

Abs(v) == IF v < 0 THEN -v ELSE v

\* the digits of n >= 0 in the given base, most significant first
RECURSIVE Numeral(_, _, _)
Numeral(n, base, digits) ==
    IF n < base THEN <<digits[n + 1]>>
    ELSE Append(Numeral(n \div base, base, digits), digits[(n % base) + 1])

\* mutant: int(v), the fraction cut off
RoundTruncate(v) ==
    IF v < 0 THEN -(Abs(v) \div 1000) ELSE Abs(v) \div 1000

\* round(v) of a float holding v thousandths: the nearest integer; a tie
\* (exactly .5) goes to the even neighbour on Python 3 and away from zero
\* on Python 2
Round(v) ==
    LET q == Abs(v) \div 1000
        r == Abs(v) % 1000
        m == IF r < 500 THEN q
             ELSE IF r > 500 THEN q + 1
             ELSE IF host = "py3" THEN (IF q % 2 = 0 THEN q ELSE q + 1)
             ELSE q + 1
    IN  IF v < 0 THEN -m ELSE m

\* mutant: format(v, '.1f')
Fmt1(v) ==
    LET q == Abs(v) \div 100
        r == Abs(v) % 100
        h == IF r < 50 THEN q
             ELSE IF r > 50 THEN q + 1
             ELSE IF q % 2 = 0 THEN q ELSE q + 1
    IN  (IF v < 0 THEN <<"-">> ELSE <<>>)
        \o Numeral(h \div 10, 10, DIGITS) \o <<".", DIGITS[(h % 10) + 1]>>

\* format(v, '.2f'): sign, integer digits, point, two decimals; the value
\* is rounded to hundredths, an exact tie going to the even neighbour
Fmt2(v) ==
    LET q == Abs(v) \div 10
        r == Abs(v) % 10
        h == IF r < 5 THEN q
             ELSE IF r > 5 THEN q + 1
             ELSE IF q % 2 = 0 THEN q ELSE q + 1
    IN  (IF v < 0 THEN <<"-">> ELSE <<>>)
        \o Numeral(h \div 100, 10, DIGITS)
        \o <<".", DIGITS[((h \div 10) % 10) + 1], DIGITS[(h % 10) + 1]>>

\* hex(n) for n >= 0
Hex(n) == <<"0", "x">> \o Numeral(n, 16, HEXDIGITS)

-----------------------------------------------------------------------------
(* skchem/core/point3D.py *)

\* self.__class__.__name__
klass == <<"P","o","i","n","t","3","D">>

\* id(self): the address of the instance
id(self) == self.addr

\* the default of the parameter two_d
two_d_default == TRUE

to_dict(self, two_d) ==
    IF two_d
    THEN [k \in {"x", "y"} |->
            IF k = "x" THEN Round(self.x) ELSE Round(self.y)]
    ELSE [k \in {"x", "y", "z"} |->
            IF k = "x" THEN Round(self.x)
            ELSE IF k = "y" THEN Round(self.y) ELSE Round(self.z)]

\* mutant: the address left out of the format string
ReprNoAddress(self) ==
    <<"<">> \o klass \o <<" ","c","o","o","r","d","s","=","\"","(">>
    \o Fmt2(self.x) \o <<",", " ">> \o Fmt2(self.y) \o <<",", " ">>
    \o Fmt2(self.z) \o <<")","\"",">">>

__repr__(self) ==
    <<"<">> \o klass \o <<" ","c","o","o","r","d","s","=","\"","(">>
    \o Fmt2(self.x) \o <<",", " ">> \o Fmt2(self.y) \o <<",", " ">>
    \o Fmt2(self.z) \o <<")","\""," ","a","t"," ">> \o Hex(id(self))
    \o <<">">>

__str__(self) ==
    <<"(">> \o Fmt2(self.x) \o <<",", " ">> \o Fmt2(self.y)
    \o <<",", " ">> \o Fmt2(self.z) \o <<")">>

-----------------------------------------------------------------------------
(* Inputs of the point component: coordinates in thousandths *)

SamplePoints ==
    { <<1400, 2600, 3500>>, <<1000, 2000, 3000>>, <<500, 2500, -500>>,
      <<125, 375, -4>>, <<-2625, 9996, 1006>> }

\* the addresses the allocator hands out
Addrs == {250 + 3 * a : a \in 1..MaxAddr}

Handles == 1..MaxPoints

Live(h) == heap[h].live

-----------------------------------------------------------------------------
(* The point component as a state machine *)

InitPoint ==
    /\ arg = <<>>
    /\ fn = "none"
    /\ calls = <<>>
    /\ host \in {"py2", "py3"}
    /\ heap = [h \in Handles |-> [live |-> FALSE]]
    /\ ret = NoRet

\* Point3D(x, y, z): the inherited constructor; the new instance gets an
\* address no existing instance has
Create(h, c, a) ==
    /\ ~Live(h)
    /\ \A g \in Handles : Live(g) => heap[g].addr # a
    /\ heap' = [heap EXCEPT ![h] =
                  [live |-> TRUE, x |-> c[1], y |-> c[2], z |-> c[3], addr |-> a]]
    /\ ret' = NoRet
    /\ UNCHANGED <<arg, fn, calls, host>>

\* the instance is released; its address may be handed out again
Destroy(h) ==
    /\ Live(h)
    /\ heap' = [heap EXCEPT ![h] = [live |-> FALSE]]
    /\ ret' = NoRet
    /\ UNCHANGED <<arg, fn, calls, host>>

\* mutant: to_dict stores the rounded coordinates back into the point
CallToDictInPlace(h, args) ==
    LET two_d == IF args = <<>> THEN two_d_default ELSE args[1] IN
    /\ Live(h)
    /\ ret' = [op |-> "to_dict", h |-> h, args |-> args,
               val |-> to_dict(heap[h], two_d)]
    /\ heap' = [heap EXCEPT ![h].x = 1000 * Round(heap[h].x),
                            ![h].y = 1000 * Round(heap[h].y)]
    /\ UNCHANGED <<arg, fn, calls, host>>

\* p.to_dict(), p.to_dict(True), p.to_dict(False): args holds the argument
\* the caller passed, if any
CallToDict(h, args) ==
    LET two_d == IF args = <<>> THEN two_d_default ELSE args[1] IN
    /\ Live(h)
    /\ ret' = [op |-> "to_dict", h |-> h, args |-> args,
               val |-> to_dict(heap[h], two_d)]
    /\ UNCHANGED <<arg, fn, calls, host, heap>>

\* repr(p)
CallRepr(h) ==
    /\ Live(h)
    /\ ret' = [op |-> "repr", h |-> h, args |-> <<>>, val |-> __repr__(heap[h])]
    /\ UNCHANGED <<arg, fn, calls, host, heap>>

\* str(p)
CallStr(h) ==
    /\ Live(h)
    /\ ret' = [op |-> "str", h |-> h, args |-> <<>>, val |-> __str__(heap[h])]
    /\ UNCHANGED <<arg, fn, calls, host, heap>>

NextPoint ==
    \/ \E h \in Handles, c \in SamplePoints, a \in Addrs : Create(h, c, a)
    \/ \E h \in Handles : Destroy(h)
    \/ \E h \in Handles, args \in {<<>>, <<TRUE>>, <<FALSE>>} : CallToDict(h, args)
    \/ \E h \in Handles : CallRepr(h)
    \/ \E h \in Handles : CallStr(h)

SpecPoint == InitPoint /\ [][NextPoint]_vars

-----------------------------------------------------------------------------
(* Properties of the point component *)

Coord(h, k) == IF k = "x" THEN heap[h].x ELSE IF k = "y" THEN heap[h].y ELSE heap[h].z

\* the two_d the call in ret ran with
RetTwoD == IF ret.args = <<>> THEN TRUE ELSE ret.args[1]

\* C6: to_dict returns a mapping with exactly the keys x, y when two_d is
\* true or omitted and exactly x, y, z when it is false, each value the
\* coordinate rounded to the nearest integer; (1.4, 2.6, 3.5) gives
\* x = 1, y = 3 and, with two_d false, z = 4.
C6_ToDictKeysAndRounding ==
    ret.op = "to_dict" =>
      /\ DOMAIN ret.val = (IF RetTwoD THEN {"x", "y"} ELSE {"x", "y", "z"})
      /\ \A k \in DOMAIN ret.val :
           /\ ret.val[k] \in Int
           /\ Abs(1000 * ret.val[k] - Coord(ret.h, k)) <= 500
      /\ (heap[ret.h].x = 1400 /\ heap[ret.h].y = 2600 /\ heap[ret.h].z = 3500) =>
           /\ ret.val["x"] = 1 /\ ret.val["y"] = 3
           /\ ~RetTwoD => ret.val["z"] = 4

C6_Witness ==
    /\ ret.op = "to_dict" /\ ret.args = <<FALSE>>
    /\ heap[ret.h].x = 1400 /\ heap[ret.h].z = 3500 /\ ret.val["z"] = 4

IsDigit(c) == \E i \in 1..Len(DIGITS) : DIGITS[i] = c
DigitValue(c) == (CHOOSE i \in 1..Len(DIGITS) : DIGITS[i] = c) - 1

RECURSIVE DecimalValue(_)
DecimalValue(t) ==
    IF t = <<>> THEN 0
    ELSE 10 * DecimalValue(SubSeq(t, 1, Len(t) - 1)) + DigitValue(t[Len(t)])

\* t is the number v (in thousandths) written with two decimal places:
\* optional minus sign, integer digits, a point, two digits, and its value
\* is the hundredth nearest to v
IsTwoDecimals(t, v) ==
    LET neg == t # <<>> /\ t[1] = "-"
        body == IF neg THEN Tail(t) ELSE t
        n == Len(body)
    IN  /\ n >= 4
        /\ body[n - 2] = "."
        /\ \A i \in (1..n) \ {n - 2} : IsDigit(body[i])
        /\ n > 4 => body[1] # "0"
        /\ neg <=> v < 0
        /\ Abs(10 * (100 * DecimalValue(SubSeq(body, 1, n - 3))
                     + DecimalValue(SubSeq(body, n - 1, n))) - Abs(v)) <= 5

\* t is "(X, Y, Z)" with X, Y, Z the coordinates of instance p
IsCoordText(t, p) ==
    LET commas == {i \in 1..Len(t) : t[i] = ","} IN
    /\ Cardinality(commas) = 2
    /\ LET c1 == CHOOSE i \in commas : \A j \in commas : i <= j
           c2 == CHOOSE i \in commas : \A j \in commas : i >= j
       IN  /\ t[1] = "(" /\ t[Len(t)] = ")"
           /\ t[c1 + 1] = " " /\ t[c2 + 1] = " "
           /\ IsTwoDecimals(SubSeq(t, 2, c1 - 1), p.x)
           /\ IsTwoDecimals(SubSeq(t, c1 + 2, c2 - 1), p.y)
           /\ IsTwoDecimals(SubSeq(t, c2 + 2, Len(t) - 1), p.z)

one_two_three ==
    <<"(","1",".","0","0",","," ","2",".","0","0",","," ","3",".","0","0",")">>

\* C7: str(p) is exactly "(X, Y, Z)", the coordinates in that order with
\* two decimal places, separated by a comma and a space, without class name
\* or identifier; for (1, 2, 3) it is "(1.00, 2.00, 3.00)".
C7_StrTwoDecimals ==
    ret.op = "str" =>
      /\ IsCoordText(ret.val, heap[ret.h])
      /\ (heap[ret.h].x = 1000 /\ heap[ret.h].y = 2000 /\ heap[ret.h].z = 3000)
           => ret.val = one_two_three

C7_Witness ==
    ret.op = "str" /\ heap[ret.h].x = 1000 /\ ret.val = one_two_three

Contains(t, sub) ==
    \E i \in 1..(Len(t) - Len(sub) + 1) : SubSeq(t, i, i + Len(sub) - 1) = sub

\* the last blank-separated word of a representation, without the final ">"
AddressToken(t) ==
    LET blanks == {i \in 1..Len(t) : t[i] = " "}
        last == CHOOSE i \in blanks : \A j \in blanks : i >= j
    IN  SubSeq(t, last + 1, Len(t) - 1)

IsHexToken(t) ==
    /\ Len(t) >= 3
    /\ t[1] = "0" /\ t[2] = "x"
    /\ \A i \in 3..Len(t) : \E j \in 1..Len(HEXDIGITS) : HEXDIGITS[j] = t[i]

LiveHandles == {h \in Handles : Live(h)}

\* C8: repr(p) contains the class name, the text str(p) and a hexadecimal
\* identifier; two instances that exist at the same time have different
\* identifiers and different representations, whatever their coordinates.
C8_ReprNameCoordsAddress ==
    /\ \A h \in LiveHandles :
         LET r == __repr__(heap[h]) IN
         /\ Contains(r, klass)
         /\ Contains(r, __str__(heap[h]))
         /\ r[Len(r)] = ">"
         /\ IsHexToken(AddressToken(r))
    /\ \A g, h \in LiveHandles :
         g # h =>
           /\ AddressToken(__repr__(heap[g])) # AddressToken(__repr__(heap[h]))
           /\ __repr__(heap[g]) # __repr__(heap[h])
    /\ ret.op = "repr" =>
         /\ ret.val = __repr__(heap[ret.h])
         /\ \A g \in LiveHandles \ {ret.h} : __repr__(heap[g]) # ret.val

C8_Witness ==
    /\ ret.op = "repr"
    /\ \E g \in LiveHandles \ {ret.h} :
         /\ heap[g].x = heap[ret.h].x
         /\ heap[g].y = heap[ret.h].y
         /\ heap[g].z = heap[ret.h].z

IsText(t) == DOMAIN t = 1..Len(t) /\ \A i \in 1..Len(t) : t[i] \in STRING

====
